---- MODULE Spec2Model ----
(***************************************************************************)
(* Model of the symptom-checker triage service (src/main.py): the POST     *)
(* /analyze handler `analyze` and the classifier `classify_with_gemini`.   *)
(*                                                                         *)
(* Text.  A Python str is modelled as a sequence of tokens.  A token is    *)
(* either one character that matters to str.strip, str.replace or          *)
(* json.loads (backtick, brace, quote, colon, comma, space, newline) or a  *)
(* word: a run of other characters that the model never splits.  The word  *)
(* "json" is the only one that contains the letters j-s-o-n, so replacing  *)
(* the substring ```json is replacing the tokens <<BT, BT, BT, "json">>.   *)
(* The module is ASCII: the backtick character is written "BACKTICK", the  *)
(* en dash of the source's labels is written "-", and the Marathi zone     *)
(* labels are transliterated.                                              *)
(*                                                                         *)
(* Start-up.  Init is the state after the module-level code has run (the   *)
(* API key is set, the lists and the label dict exist).  As written,       *)
(* main.py has `from __future__ import annotations` on line 21, after      *)
(* other statements, which Python rejects when it compiles the file; the   *)
(* model describes the handlers as the file defines them.                  *)
(***************************************************************************)
EXTENDS Naturals, Sequences, FiniteSets

VARIABLES
  pc,          \* per request: position in analyze / classify_with_gemini
  complaint,   \* per request: req.complaint
  prompt,      \* per request: the prompt sent to the model
  reply,       \* per request: what the external model answered (environment)
  raw_text,    \* per request: local raw_text of classify_with_gemini
  data,        \* per request: local data (the parsed JSON value)
  result,      \* per request: the dict classify_with_gemini returned
  response,    \* per request: the AnalyzeResponse sent back
  error,       \* per request: the exception that ended the request
  calls,       \* per request: number of generate_content calls made
  parses,      \* per request: number of json.loads calls made
  log,         \* process-wide: lines appended to the rotating log
  globals      \* process-wide: the module-level lists and dict

vars == <<pc, complaint, prompt, reply, raw_text, data, result, response,
          error, calls, parses, log, globals>>

-----------------------------------------------------------------------------
(* Characters *)

BT == "BACKTICK"
LB == "{"
RB == "}"
QT == "\""
COLON == ":"
COMMA == ","
SP == " "
NL == "\n"

Whitespace == {SP, NL}

Range(s) == {s[i] : i \in 1..Len(s)}

-----------------------------------------------------------------------------
(* str.strip and str.replace *)

RECURSIVE lstrip(_)
lstrip(s) ==
  IF s # <<>> /\ Head(s) \in Whitespace THEN lstrip(Tail(s)) ELSE s

RECURSIVE rstrip(_)
rstrip(s) ==
  IF s # <<>> /\ s[Len(s)] \in Whitespace
    THEN rstrip(SubSeq(s, 1, Len(s) - 1))
    ELSE s

strip(s) == rstrip(lstrip(s))

\* Python str.replace(old, new): every non-overlapping occurrence, scanning
\* from the left.
RECURSIVE replace(_, _, _)
replace(s, old, new) ==
  IF Len(s) < Len(old) THEN s
  ELSE IF SubSeq(s, 1, Len(old)) = old
    THEN new \o replace(SubSeq(s, Len(old) + 1, Len(s)), old, new)
    ELSE <<Head(s)>> \o replace(Tail(s), old, new)

FENCE_JSON == <<BT, BT, BT, "json">>
FENCE == <<BT, BT, BT>>

\* raw_text.replace("```json", "").replace("```", "").strip()
Cleaned(raw) == strip(replace(replace(raw, FENCE_JSON, <<>>), FENCE, <<>>))

-----------------------------------------------------------------------------
(* json.loads, for the JSON texts of the model: an object whose member     *)
(* values are strings, or a string.  A parse returns [ok, val]; val is     *)
(* [kind |-> "dict", d |-> function from key to value, s |-> <<>>] or      *)
(* [kind |-> "str", d |-> <<>>, s |-> the string].                         *)

NoData == [kind |-> "none", d |-> <<>>, s |-> <<>>]
DictData(d) == [kind |-> "dict", d |-> d, s |-> <<>>]
StrData(s) == [kind |-> "str", d |-> <<>>, s |-> s]

ParseFail == [ok |-> FALSE, val |-> NoData, next |-> 0]

RECURSIVE SkipWs(_, _)
SkipWs(s, i) ==
  IF i <= Len(s) /\ s[i] \in Whitespace THEN SkipWs(s, i + 1) ELSE i

\* index of the closing quote of the string whose content starts at i, or 0
\* (a raw newline inside a string is a control character: invalid JSON)
RECURSIVE ClosingQuote(_, _)
ClosingQuote(s, i) ==
  IF i > Len(s) THEN 0
  ELSE IF s[i] = QT THEN i
  ELSE IF s[i] = NL THEN 0
  ELSE ClosingQuote(s, i + 1)

\* a string starting at i: [ok, val |-> its content, next |-> index after it]
ParseString(s, i) ==
  IF i > Len(s) \/ s[i] # QT THEN [ok |-> FALSE, val |-> <<>>, next |-> 0]
  ELSE LET j == ClosingQuote(s, i + 1)
       IN IF j = 0 THEN [ok |-> FALSE, val |-> <<>>, next |-> 0]
          ELSE [ok |-> TRUE, val |-> SubSeq(s, i + 1, j - 1), next |-> j + 1]

\* dict assignment d[k] = v: a repeated key keeps the last value
Put(d, k, v) == [x \in (DOMAIN d) \cup {k} |-> IF x = k THEN v ELSE d[x]]

\* members of an object, the first starting at i; d holds the earlier ones
RECURSIVE ParseMembers(_, _, _)
ParseMembers(s, i, d) ==
  LET k == ParseString(s, i) IN
  IF ~k.ok THEN ParseFail
  ELSE LET c == SkipWs(s, k.next) IN
    IF c > Len(s) \/ s[c] # COLON THEN ParseFail
    ELSE LET v == ParseString(s, SkipWs(s, c + 1)) IN
      IF ~v.ok THEN ParseFail
      ELSE LET e == SkipWs(s, v.next)
               d2 == Put(d, k.val, v.val)
           IN IF e > Len(s) THEN ParseFail
              ELSE IF s[e] = RB
                THEN [ok |-> TRUE, val |-> DictData(d2), next |-> e + 1]
              ELSE IF s[e] = COMMA
                THEN ParseMembers(s, SkipWs(s, e + 1), d2)
              ELSE ParseFail

ParseValue(s, i) ==
  IF i > Len(s) THEN ParseFail
  ELSE IF s[i] = QT
    THEN LET v == ParseString(s, i)
         IN IF v.ok THEN [ok |-> TRUE, val |-> StrData(v.val), next |-> v.next]
            ELSE ParseFail
  ELSE IF s[i] = LB
    THEN LET j == SkipWs(s, i + 1)
         IN IF j <= Len(s) /\ s[j] = RB
              THEN [ok |-> TRUE, val |-> DictData(<<>>), next |-> j + 1]
              ELSE ParseMembers(s, j, <<>>)
  ELSE ParseFail

\* json.loads(s): one value with optional whitespace around it, nothing else
json_loads(s) ==
  LET v == ParseValue(s, SkipWs(s, 1)) IN
  IF v.ok /\ SkipWs(s, v.next) = Len(s) + 1
    THEN [ok |-> TRUE, val |-> v.val]
    ELSE [ok |-> FALSE, val |-> NoData]

-----------------------------------------------------------------------------
(* Module-level values of main.py.  The Python string "Heart Attack" is    *)
(* the one-word sequence <<"Heart Attack">>.                               *)

DISEASES == <<
  <<"Viral Fever (without warning signs)">>,
  <<"Gastritis / Acid Reflux">>,
  <<"Migraine / Tension Headache">>,
  <<"Skin Infection / Cellulitis (mild)">>,
  <<"Moderate Hypertension (BP 140-160/90-100)">>,
  <<"Pregnancy Complications (Bleeding / Pain)">>,
  <<"Severe Dehydration">>,
  <<"Snake Bite (Suspected)">>,
  <<"Tuberculosis (with cough >2 weeks)">>,
  <<"Seizure / Fits">>,
  <<"Heart Attack">>,
  <<"Unconscious / Coma">>,
  <<"Stroke (CVA)">>,
  <<"Severe Head Injury">>,
  <<"Severe Trauma with Bleeding / Fracture">> >>

ALLOWED_ZONES == << <<"Red">>, <<"Orange">>, <<"Yellow">> >>

ZONE_LABELS ==
  [z \in {<<"Red">>, <<"Orange">>, <<"Yellow">>} |->
     IF z = <<"Red">> THEN <<"Zone: (red circle) Red - uchcha dhokyachi patali">>
     ELSE IF z = <<"Orange">>
       THEN <<"Zone: (orange circle) Orange - madhyam dhokyachi patali">>
       ELSE <<"Zone: (yellow circle) Yellow - kami dhokyachi patali">>]

\* the labels of the numbered disease list inside system_instructions
PROMPT_DISEASES == <<
  <<"Viral Fever (without warning signs)">>,
  <<"Gastritis / Acid Reflux">>,
  <<"Migraine / Tension Headache">>,
  <<"Skin Infection / Cellulitis (mild)">>,
  <<"Moderate Hypertension (BP 140-160/90-100)">>,
  <<"Pregnancy Complications (Bleeding / Pain)">>,
  <<"Severe Dehydration">>,
  <<"Snake Bite (Suspected)">>,
  <<"Tuberculosis (with cough >2 weeks)">>,
  <<"Seizure / Fits">>,
  <<"Heart Attack (Myocardial Infarction)">>,
  <<"Unconscious / Coma">>,
  <<"Stroke (CVA)">>,
  <<"Severe Head Injury">>,
  <<"Severe Trauma with Bleeding / Fracture">> >>

DEFAULT_DISEASE == <<"Viral Fever (without warning signs)">>
DEFAULT_ZONE == <<"Yellow">>

K_DISEASE == <<"disease">>
K_ZONE == <<"zone">>
K_SYMPTOMS == <<"symptoms_line">>
K_ACTION == <<"action_line">>

\* the list the key check iterates over, in its order
REQUIRED_KEYS == <<K_DISEASE, K_ZONE, K_SYMPTOMS, K_ACTION>>

\* prompt = system_instructions + "\n" + user_context: the instruction block
\* (its disease list and the interpolated ALLOWED_ZONES) and the complaint
BuildPrompt(g, text) ==
  [diseases |-> PROMPT_DISEASES, zones |-> g.ALLOWED_ZONES, complaint |-> text]

-----------------------------------------------------------------------------
(* Exceptions *)

NoError == [type |-> "none", detail |-> <<>>]
GeminiCallFailed == [type |-> "RuntimeError", detail |-> <<"Gemini call failed">>]
JSONDecodeError == [type |-> "JSONDecodeError", detail |-> <<>>]
MissingKey(k) ==
  [type |-> "RuntimeError", detail |-> <<"Missing key in Gemini response: ">> \o k]
TypeError == [type |-> "TypeError", detail |-> <<>>]
KeyError(k) == [type |-> "KeyError", detail |-> <<k>>]

-----------------------------------------------------------------------------
(* Validation: the key check and the two clamps of classify_with_gemini *)

\* `key in data`: dict membership, or substring test when data is a str
HasKey(dat, k) ==
  IF dat.kind = "dict" THEN k \in DOMAIN dat.d ELSE k[1] \in Range(dat.s)

\* index in REQUIRED_KEYS of the first key the loop finds missing, 0 if none
FirstMissing(dat) ==
  LET miss == {i \in 1..Len(REQUIRED_KEYS) : ~HasKey(dat, REQUIRED_KEYS[i])}
  IN IF miss = {} THEN 0 ELSE CHOOSE i \in miss : \A j \in miss : i <= j

\* mutant: the disease clamp left out
ClampDiseaseUnchecked(g, disease) == disease

ClampDisease(g, disease) ==
  IF disease \notin Range(g.DISEASES) THEN DEFAULT_DISEASE ELSE disease

ClampZone(g, zone) ==
  IF zone \notin Range(g.ALLOWED_ZONES) THEN DEFAULT_ZONE ELSE zone

NoResult == <<>>

\* mutant: the zone is clamped whenever the disease is
ClassifiedCoupled(g, d) ==
  [disease |-> ClampDisease(g, d[K_DISEASE]),
   zone |-> IF d[K_DISEASE] \notin Range(g.DISEASES) THEN DEFAULT_ZONE
            ELSE ClampZone(g, d[K_ZONE]),
   symptoms_line |-> d[K_SYMPTOMS],
   action_line |-> d[K_ACTION]]

\* the dict returned at the end of classify_with_gemini
Classified(g, d) ==
  [disease |-> ClampDisease(g, d[K_DISEASE]),
   zone |-> ClampZone(g, d[K_ZONE]),
   symptoms_line |-> d[K_SYMPTOMS],
   action_line |-> d[K_ACTION]]

\* ZONE_LABELS.get(zone, f"Zone: {zone}")
ZoneLabel(g, zone) ==
  IF zone \in DOMAIN g.ZONE_LABELS THEN g.ZONE_LABELS[zone]
  ELSE <<"Zone: ">> \o zone

NoResponse == <<>>

-----------------------------------------------------------------------------
(* Environment: the requests that arrive and what the external model       *)
(* answers.  The model is untrusted: any of these can follow any prompt.   *)

NumRequests == 2      \* request slots of the concurrent specification
MaxTicks == 3         \* longest backtick run inside a symptoms_line value

Requests == 1..NumRequests

\* the complaint of request r: free text, different for different requests
\* (the word "khokla" r times)
ComplaintOf(r) == <<"mala">> \o [i \in 1..r |-> "khokla"] \o <<"ahe">>

Complaints == { ComplaintOf(r) : r \in Requests }

Absent == <<"(absent)">>      \* marks a key the reply leaves out

RECURSIVE Ticks(_)
Ticks(n) == IF n = 0 THEN <<>> ELSE <<BT>> \o Ticks(n - 1)

DiseaseValues ==
  Range(DISEASES) \cup Range(PROMPT_DISEASES)
    \cup { <<>>, <<"heart attack">>, <<"Flu">> }
ZoneValues ==
  Range(ALLOWED_ZONES) \cup { <<>>, <<"red">>, <<"Critical">> }
SymptomValues ==
  { <<"X">> } \cup { <<"a">> \o Ticks(n) \o <<"b">> : n \in 1..MaxTicks }
ActionValues == { <<"Y">> }

Member(k, v) == <<QT>> \o k \o <<QT, COLON, SP, QT>> \o v \o <<QT>>

RECURSIVE JoinMembers(_)
JoinMembers(ms) ==
  IF ms = <<>> THEN <<>>
  ELSE IF Len(ms) = 1 THEN Head(ms)
  ELSE Head(ms) \o <<COMMA, SP>> \o JoinMembers(Tail(ms))

\* the JSON text of an object with the given values, Absent keys left out
ObjectText(d, z, s, a) ==
  LET all == << <<K_DISEASE, d>>, <<K_ZONE, z>>, <<K_SYMPTOMS, s>>, <<K_ACTION, a>> >>
      kept == SelectSeq(all, LAMBDA m : m[2] # Absent)
      ms == [i \in 1..Len(kept) |-> Member(kept[i][1], kept[i][2])]
  IN <<LB>> \o JoinMembers(ms) \o <<RB>>

ProseText == <<"The patient seems to have a viral fever.">>
\* a JSON string, not an object, that mentions all four key names
KeysStringText ==
  <<QT, "disease", SP, "zone", SP, "symptoms_line", SP, "action_line", QT>>
PlainStringText == <<QT, "rest and fluids", QT>>

Bodies ==
  { ObjectText(d, z, s, a) :
      d \in DiseaseValues \cup {Absent}, z \in ZoneValues \cup {Absent},
      s \in SymptomValues \cup {Absent}, a \in ActionValues \cup {Absent} }
  \cup { ProseText, KeysStringText, PlainStringText }

Fences == {"none", "json", "plain"}

\* the reply text: the body bare, or inside ```json ... ``` or ``` ... ```
Wrap(fence, body) ==
  IF fence = "json" THEN FENCE_JSON \o <<NL>> \o body \o <<NL>> \o FENCE
  ELSE IF fence = "plain" THEN FENCE \o <<NL>> \o body \o <<NL>> \o FENCE \o <<NL>>
  ELSE body

NoReply == [kind |-> "pending", fence |-> "none", body |-> <<>>]
\* generate_content raised, or returned a response whose .text is None
FailedReplies ==
  { [kind |-> k, fence |-> "none", body |-> <<>>] : k \in {"raise", "no_text"} }
TextReplies(bodies) ==
  { [kind |-> "text", fence |-> f, body |-> b] : f \in Fences, b \in bodies }

Outcomes == FailedReplies \cup TextReplies(Bodies)

\* the replies of the concurrent specification: a failed call, a bare
\* in-vocabulary object, a fenced out-of-vocabulary object, fenced prose
SmallOutcomes ==
  { [kind |-> "raise", fence |-> "none", body |-> <<>>],
    [kind |-> "text", fence |-> "none",
     body |-> ObjectText(<<"Heart Attack">>, <<"Red">>, <<"X">>, <<"Y">>)],
    [kind |-> "text", fence |-> "json",
     body |-> ObjectText(<<"Flu">>, <<"Critical">>,
                         <<"a">> \o Ticks(3) \o <<"b">>, <<"Y">>)],
    [kind |-> "text", fence |-> "json", body |-> ProseText] }

-----------------------------------------------------------------------------
(* Operations *)

LogLine(r, line) == [req |-> r, level |-> "INFO", line |-> line]

Init ==
  /\ pc = [r \in Requests |-> "idle"]
  /\ complaint = [r \in Requests |-> <<>>]
  /\ prompt = [r \in Requests |-> <<>>]
  /\ reply = [r \in Requests |-> NoReply]
  /\ raw_text = [r \in Requests |-> <<>>]
  /\ data = [r \in Requests |-> NoData]
  /\ result = [r \in Requests |-> NoResult]
  /\ response = [r \in Requests |-> NoResponse]
  /\ error = [r \in Requests |-> NoError]
  /\ calls = [r \in Requests |-> 0]
  /\ parses = [r \in Requests |-> 0]
  /\ log = <<>>
  /\ globals = [DISEASES |-> DISEASES, ALLOWED_ZONES |-> ALLOWED_ZONES,
                ZONE_LABELS |-> ZONE_LABELS]

\* analyze, up to the first logger.info: a request arrives with complaint c
Receive(r, c) ==
  /\ pc[r] = "idle"
  /\ complaint' = [complaint EXCEPT ![r] = c]
  /\ log' = Append(log, LogLine(r, <<"User Complaint: ">> \o c))
  /\ pc' = [pc EXCEPT ![r] = "received"]
  /\ UNCHANGED <<prompt, reply, raw_text, data, result, response, error,
                 calls, parses, globals>>

\* mutant: a failed call is retried once
CallGeminiRetry(r, outcomes) ==
  /\ pc[r] = "received"
  /\ prompt' = [prompt EXCEPT ![r] = BuildPrompt(globals, complaint[r])]
  /\ calls' = [calls EXCEPT ![r] = @ + 1]
  /\ \E out \in outcomes :
       /\ reply' = [reply EXCEPT ![r] = out]
       /\ IF out.kind = "text"
            THEN /\ raw_text' = [raw_text EXCEPT ![r] = strip(Wrap(out.fence, out.body))]
                 /\ pc' = [pc EXCEPT ![r] = "called"]
                 /\ UNCHANGED error
            ELSE IF calls[r] = 0
              THEN UNCHANGED <<raw_text, pc, error>>
              ELSE /\ error' = [error EXCEPT ![r] = GeminiCallFailed]
                   /\ pc' = [pc EXCEPT ![r] = "failed"]
                   /\ UNCHANGED raw_text
  /\ UNCHANGED <<complaint, data, result, response, parses, log, globals>>

\* classify_with_gemini, the prompt and the first try block: one call of
\* generate_content; any exception, also .strip() on a None text, is
\* re-raised as RuntimeError("Gemini call failed")
CallGemini(r, outcomes) ==
  /\ pc[r] = "received"
  /\ prompt' = [prompt EXCEPT ![r] = BuildPrompt(globals, complaint[r])]
  /\ calls' = [calls EXCEPT ![r] = @ + 1]
  /\ \E out \in outcomes :
       /\ reply' = [reply EXCEPT ![r] = out]
       /\ IF out.kind = "text"
            THEN /\ raw_text' = [raw_text EXCEPT ![r] = strip(Wrap(out.fence, out.body))]
                 /\ pc' = [pc EXCEPT ![r] = "called"]
                 /\ UNCHANGED error
            ELSE /\ error' = [error EXCEPT ![r] = GeminiCallFailed]
                 /\ pc' = [pc EXCEPT ![r] = "failed"]
                 /\ UNCHANGED raw_text
  /\ UNCHANGED <<complaint, data, result, response, parses, log, globals>>

\* mutant: a text that fails both parses is replaced by an empty reply
ParseTextFabricate(r, text) ==
  LET first == json_loads(text)
      second == json_loads(Cleaned(text))
      made == [k \in Range(REQUIRED_KEYS) |-> <<>>]
  IN /\ data' = [data EXCEPT ![r] =
                   IF first.ok THEN first.val
                   ELSE IF second.ok THEN second.val ELSE DictData(made)]
     /\ parses' = [parses EXCEPT ![r] = IF first.ok THEN @ + 1 ELSE @ + 2]
     /\ pc' = [pc EXCEPT ![r] = "parsed"]
     /\ UNCHANGED error

\* json.loads(text), and on any exception json.loads of the text with the
\* fence markers replaced away; the second exception leaves the function
ParseText(r, text) ==
  LET first == json_loads(text)
      second == json_loads(Cleaned(text))
  IN IF first.ok
       THEN /\ data' = [data EXCEPT ![r] = first.val]
            /\ parses' = [parses EXCEPT ![r] = @ + 1]
            /\ pc' = [pc EXCEPT ![r] = "parsed"]
            /\ UNCHANGED error
       ELSE IF second.ok
         THEN /\ data' = [data EXCEPT ![r] = second.val]
              /\ parses' = [parses EXCEPT ![r] = @ + 2]
              /\ pc' = [pc EXCEPT ![r] = "parsed"]
              /\ UNCHANGED error
         ELSE /\ error' = [error EXCEPT ![r] = JSONDecodeError]
              /\ parses' = [parses EXCEPT ![r] = @ + 2]
              /\ pc' = [pc EXCEPT ![r] = "failed"]
              /\ UNCHANGED data

\* mutant: raw_text is one module-level name shared by the requests in flight
ParseReplyShared(r) ==
  /\ pc[r] = "called"
  /\ \E q \in Requests : pc[q] = "called" /\ ParseText(r, raw_text[q])
  /\ UNCHANGED <<complaint, prompt, reply, raw_text, result, response, calls,
                 log, globals>>

\* the second try block, on the request's own local raw_text
ParseReply(r) ==
  /\ pc[r] = "called"
  /\ ParseText(r, raw_text[r])
  /\ UNCHANGED <<complaint, prompt, reply, raw_text, result, response, calls,
                 log, globals>>

\* mutant: a missing key is filled with an empty value instead of raising
ValidateLenient(r) ==
  /\ pc[r] = "parsed"
  /\ IF data[r].kind # "dict"
       THEN /\ error' = [error EXCEPT ![r] = TypeError]
            /\ pc' = [pc EXCEPT ![r] = "failed"]
            /\ UNCHANGED result
       ELSE LET filled == [k \in Range(REQUIRED_KEYS) |->
                             IF k \in DOMAIN data[r].d THEN data[r].d[k] ELSE <<>>]
            IN /\ result' = [result EXCEPT ![r] = Classified(globals, filled)]
               /\ pc' = [pc EXCEPT ![r] = "classified"]
               /\ UNCHANGED error
  /\ UNCHANGED <<complaint, prompt, reply, raw_text, data, response, calls,
                 parses, log, globals>>

\* the key check, the clamps and the return of classify_with_gemini
Validate(r) ==
  /\ pc[r] = "parsed"
  /\ LET m == FirstMissing(data[r]) IN
       IF m # 0
         THEN /\ error' = [error EXCEPT ![r] = MissingKey(REQUIRED_KEYS[m])]
              /\ pc' = [pc EXCEPT ![r] = "failed"]
              /\ UNCHANGED result
       ELSE IF data[r].kind # "dict"
         \* data["disease"] on a str
         THEN /\ error' = [error EXCEPT ![r] = TypeError]
              /\ pc' = [pc EXCEPT ![r] = "failed"]
              /\ UNCHANGED result
         ELSE /\ result' = [result EXCEPT ![r] = Classified(globals, data[r].d)]
              /\ pc' = [pc EXCEPT ![r] = "classified"]
              /\ UNCHANGED error
  /\ UNCHANGED <<complaint, prompt, reply, raw_text, data, response, calls,
                 parses, log, globals>>

\* analyze: logger.info(f"AI Response Zone: {result['zone']}")
LogZone(r) ==
  /\ pc[r] = "classified"
  /\ log' = Append(log, LogLine(r, <<"AI Response Zone: ">> \o result[r].zone))
  /\ pc' = [pc EXCEPT ![r] = "zone_logged"]
  /\ UNCHANGED <<complaint, prompt, reply, raw_text, data, result, response,
                 error, calls, parses, globals>>

\* analyze, the rest: the f-string reads result['patient_symptoms_line']
\* (KeyError when the dict has no such key), then the label lookup and the
\* AnalyzeResponse
Finish(r) ==
  /\ pc[r] = "zone_logged"
  /\ IF "patient_symptoms_line" \in DOMAIN result[r]
       THEN /\ log' = Append(log, LogLine(r, <<"Symptoms Line: ">>
                                    \o result[r].patient_symptoms_line))
            /\ response' = [response EXCEPT ![r] =
                 [zone |-> result[r].zone,
                  zone_label |-> ZoneLabel(globals, result[r].zone),
                  disease |-> result[r].disease,
                  patient_symptoms_line |-> result[r].symptoms_line,
                  patient_action_line |-> result[r].action_line]]
            /\ pc' = [pc EXCEPT ![r] = "responded"]
            /\ UNCHANGED error
       ELSE /\ error' = [error EXCEPT ![r] = KeyError("patient_symptoms_line")]
            /\ pc' = [pc EXCEPT ![r] = "failed"]
            /\ UNCHANGED <<log, response>>
  /\ UNCHANGED <<complaint, prompt, reply, raw_text, data, result, calls,
                 parses, globals>>

\* one request at a time, any reply of the model
Next ==
  \/ \E c \in Complaints : Receive(1, c)
  \/ CallGemini(1, Outcomes)
  \/ ParseReply(1)
  \/ Validate(1)
  \/ LogZone(1)
  \/ Finish(1)

Spec == Init /\ [][Next]_vars

\* several requests in flight with different complaints, their steps
\* interleaved
ConcNext ==
  \/ \E r \in Requests : Receive(r, ComplaintOf(r))
  \/ \E r \in Requests : CallGemini(r, SmallOutcomes)
  \/ \E r \in Requests : ParseReply(r)
  \/ \E r \in Requests : Validate(r)
  \/ \E r \in Requests : LogZone(r)
  \/ \E r \in Requests : Finish(r)

ConcSpec == Init /\ [][ConcNext]_vars

-----------------------------------------------------------------------------
(* Properties *)

\* classify_with_gemini returned a dict for request r
Validated(r) == DOMAIN result[r] # {}
\* request r has left analyze, by a response or by an exception
Ended(r) == pc[r] \in {"responded", "failed"}
\* the parsed reply of request r is an object that holds all four keys
FourKeys(r) ==
  data[r].kind = "dict" /\ Range(REQUIRED_KEYS) \subseteq DOMAIN data[r].d
\* the lines request r appended to the log, in log order
LinesOf(r) ==
  LET mine == SelectSeq(log, LAMBDA e : e.req = r)
  IN [i \in 1..Len(mine) |-> mine[i].line]

\* C1: when the reply parses to an object with all four keys, validation
\* returns a result; its disease is the reply's disease if that is exactly
\* one of the 15 DISEASES and the default disease otherwise, so it is always
\* one of DISEASES.
C1_DiseaseClamp ==
  \A r \in Requests :
    /\ (FourKeys(r) /\ pc[r] # "parsed") => Validated(r)
    /\ Validated(r) =>
         LET d == data[r].d[K_DISEASE] IN
           /\ d \in Range(DISEASES) => result[r].disease = d
           /\ d \notin Range(DISEASES) => result[r].disease = DEFAULT_DISEASE
           /\ result[r].disease \in Range(DISEASES)

\* a case-mismatched label was clamped to the default disease
C1_Witness ==
  \E r \in Requests :
    /\ Validated(r)
    /\ data[r].d[K_DISEASE] = <<"heart attack">>
    /\ result[r].disease = DEFAULT_DISEASE

Severity(z) == IF z = <<"Red">> THEN 3 ELSE IF z = <<"Orange">> THEN 2 ELSE 1

\* C2: the returned zone is the reply's zone if that is Red, Orange or
\* Yellow and "Yellow" otherwise, whatever happened to the disease; it is
\* never more severe than a valid zone of the reply.
C2_ZoneClamp ==
  \A r \in Requests :
    Validated(r) =>
      LET z == data[r].d[K_ZONE] IN
        /\ z \in Range(ALLOWED_ZONES) =>
             result[r].zone = z /\ Severity(result[r].zone) <= Severity(z)
        /\ z \notin Range(ALLOWED_ZONES) => result[r].zone = DEFAULT_ZONE
        /\ result[r].zone \in Range(ALLOWED_ZONES)

\* the disease was clamped and the valid zone Red was kept
C2_Witness ==
  \E r \in Requests :
    /\ Validated(r)
    /\ data[r].d[K_DISEASE] = <<"Flu">>
    /\ result[r].disease = DEFAULT_DISEASE
    /\ data[r].d[K_ZONE] = <<"Red">>
    /\ result[r].zone = <<"Red">>

\* C3: a request whose reply passed validation ends with a success response
\* that carries the validated zone, disease and lines and the ZONE_LABELS
\* entry of the zone.
C3_SuccessResponse ==
  \A r \in Requests :
    (Validated(r) /\ Ended(r)) =>
      /\ pc[r] = "responded"
      /\ response[r].zone = result[r].zone
      /\ response[r].disease = result[r].disease
      /\ response[r].patient_symptoms_line = result[r].symptoms_line
      /\ response[r].patient_action_line = result[r].action_line
      /\ response[r].zone_label = ZONE_LABELS[result[r].zone]

\* C4: a JSON text that parses directly yields the same parsed object when
\* the reply wraps it in ```json ... ``` fences.
C4_FenceRoundTrip ==
  \A r \in Requests :
    (/\ parses[r] > 0
     /\ reply[r].fence = "json"
     /\ json_loads(reply[r].body).ok)
      => data[r] = json_loads(reply[r].body).val

\* C5: a parsed object that lacks one of the four keys ends validation with
\* the missing-key error naming a key the object lacks; no result and no
\* response exist, whatever the values of the keys that are present.
C5_MissingKey ==
  \A r \in Requests :
    (data[r].kind = "dict" /\ ~FourKeys(r) /\ pc[r] # "parsed") =>
      /\ pc[r] = "failed"
      /\ \E i \in 1..Len(REQUIRED_KEYS) :
           /\ REQUIRED_KEYS[i] \notin DOMAIN data[r].d
           /\ error[r] = MissingKey(REQUIRED_KEYS[i])
      /\ ~Validated(r)
      /\ DOMAIN response[r] = {}

\* the zone is missing while the disease present is out of vocabulary
C5_Witness ==
  \E r \in Requests :
    /\ data[r].kind = "dict"
    /\ K_ZONE \notin DOMAIN data[r].d
    /\ K_DISEASE \in DOMAIN data[r].d
    /\ data[r].d[K_DISEASE] = <<"Flu">>
    /\ error[r] = MissingKey(K_ZONE)

\* C6: a reply that copies a disease label of the prompt verbatim names a
\* member of DISEASES and is returned unchanged.
C6_PromptVocabulary ==
  \A r \in Requests :
    (Validated(r) /\ data[r].d[K_DISEASE] \in Range(prompt[r].diseases)) =>
      /\ data[r].d[K_DISEASE] \in Range(DISEASES)
      /\ result[r].disease = data[r].d[K_DISEASE]

\* what a request's locals must be, given only its own complaint and the
\* reply to its own prompt
OwnText(r) == strip(Wrap(reply[r].fence, reply[r].body))
OwnParse(r) ==
  LET first == json_loads(OwnText(r))
  IN IF first.ok THEN first ELSE json_loads(Cleaned(OwnText(r)))

\* C7: with requests interleaved, every request's prompt, parsed data,
\* result, error and log lines come from its own complaint and the reply to
\* its own prompt, and the process-wide values stay as initialised.
C7_NoCrossContamination ==
  /\ globals = [DISEASES |-> DISEASES, ALLOWED_ZONES |-> ALLOWED_ZONES,
                ZONE_LABELS |-> ZONE_LABELS]
  /\ \A r \in Requests :
       /\ pc[r] \notin {"idle", "received"} =>
            prompt[r].complaint = complaint[r]
       /\ pc[r] # "idle" =>
            LinesOf(r)[1] = <<"User Complaint: ">> \o complaint[r]
       /\ parses[r] > 0 =>
            LET own == OwnParse(r) IN
              /\ data[r] = own.val
              /\ ~own.ok => error[r] = JSONDecodeError
              /\ Validated(r) =>
                   /\ result[r] = Classified(globals, own.val.d)
                   /\ pc[r] # "classified" =>
                        LinesOf(r)[2] = <<"AI Response Zone: ">> \o result[r].zone

\* two requests with different complaints ended with different results
C7_Witness ==
  /\ Ended(1) /\ Ended(2)
  /\ Validated(1) /\ Validated(2)
  /\ complaint[1] # complaint[2]
  /\ result[1].disease = <<"Heart Attack">>
  /\ result[2].disease = DEFAULT_DISEASE
  /\ result[2].zone = DEFAULT_ZONE

\* C8: a reply that parses neither directly nor after the fence markers are
\* replaced away ends the request with the JSON decode error after exactly
\* two parse attempts; no data, no result and no response exist.  No
\* request parses more than twice.
C8_MalformedFails ==
  \A r \in Requests :
    /\ parses[r] <= 2
    /\ (/\ parses[r] > 0
        /\ ~json_loads(raw_text[r]).ok
        /\ ~json_loads(Cleaned(raw_text[r])).ok)
         => /\ pc[r] = "failed"
            /\ error[r] = JSONDecodeError
            /\ parses[r] = 2
            /\ data[r] = NoData
            /\ ~Validated(r)
            /\ DOMAIN response[r] = {}

\* plain prose inside a json fence failed both parses
C8_Witness ==
  \E r \in Requests :
    /\ reply[r].body = ProseText
    /\ reply[r].fence = "json"
    /\ parses[r] = 2
    /\ error[r] = JSONDecodeError

\* C9: a request whose reply passed validation has appended exactly three
\* log lines when it ends: the complaint, the zone, the symptoms line.
C9_ThreeLogLines ==
  \A r \in Requests :
    (Validated(r) /\ Ended(r)) =>
      LinesOf(r) = << <<"User Complaint: ">> \o complaint[r],
                      <<"AI Response Zone: ">> \o result[r].zone,
                      <<"Symptoms Line: ">> \o result[r].symptoms_line >>

\* C10: a request calls the model exactly once; a failed call ends the
\* request with the "Gemini call failed" error before any parse or
\* validation, and no later error calls the model again.
C10_SingleModelCall ==
  \A r \in Requests :
    /\ calls[r] <= 1
    /\ pc[r] \notin {"idle", "received"} => calls[r] = 1
    /\ reply[r].kind \in {"raise", "no_text"} =>
         /\ pc[r] = "failed"
         /\ error[r] = GeminiCallFailed
         /\ parses[r] = 0
         /\ data[r] = NoData
         /\ ~Validated(r)
         /\ DOMAIN response[r] = {}

\* the model call raised and the request failed after its one call
C10_Witness ==
  \E r \in Requests :
    /\ reply[r].kind = "raise"
    /\ calls[r] = 1
    /\ error[r] = GeminiCallFailed
====
